---- MODULE Spec2Model ----
(***************************************************************************)
(* Device discovery to topology pipeline of my_lan_scanner.                *)
(*                                                                         *)
(*   - the topology sanitizer of components/TopologyMap.tsx (the "D3       *)
(*     Logic" effect: validIds, cleanDevices, roots repair, d3.stratify),  *)
(*   - the resilient call wrapper retryWithBackoff of                      *)
(*     services/geminiService.ts.                                          *)
(*                                                                         *)
(*   - the host prober scanSubnet of services/geminiService.ts,            *)
(*   - the text import of App.tsx (handleImportRealData).                  *)
(*                                                                         *)
(* Each part has its own specification (SanSpec, RetrySpec, ScanSpec,      *)
(* ImportSpec); the variables of the other parts stay at their idle        *)
(* values.                                                                 *)
(***************************************************************************)
EXTENDS Integers, Sequences, FiniteSets, TLC

VARIABLES
    devices,        \* TopologyMap: the `devices` prop (NetworkDevice[])
    cleanDevices,   \* TopologyMap: `cleanDevices` after the roots repair
    rendered,       \* TopologyMap: what the effect left in the svg
    operation,      \* retryWithBackoff: outcome of the i-th call of `operation`
    retries0,       \* retryWithBackoff: `retries` argument of the outermost call
    delay0,         \* retryWithBackoff: `delay` argument of the outermost call
    retries,        \* retryWithBackoff: `retries` of the current recursion level
    delay,          \* retryWithBackoff: `delay` of the current recursion level
    rpc,            \* retryWithBackoff: position of the async function
    invocations,    \* number of times `operation` has been invoked
    caught,         \* the error caught by the current level's catch block
    waits,          \* the setTimeout delays waited so far, in order
    result,         \* value the outermost promise resolved with
    thrown,         \* error the outermost promise rejected with
    subnetBase,     \* scanSubnet: the `subnetBase` argument
    responding,     \* transport: the host suffixes that answer before the deadline
    spc,            \* scanSubnet: position of the async function
    batchStart,     \* scanSubnet: the loop variable `i`
    pending,        \* suffixes whose checkIp promise has not settled
    batchResults,   \* settled checkIp promises of the batch: suffix -> device or none
    probeCount,     \* number of fetches issued per suffix
    activeDevices,  \* scanSubnet: `activeDevices`
    progress,       \* the onProgress calls so far: << percent, found >>
    overtaken,      \* some answer came before that of a lower address of its batch
    importText,     \* App: `importText`, the pasted text as lines of tokens
    pastedText,     \* the text handleImportRealData was called with
    ipc,            \* App.handleImportRealData: position of the async function
    parsed,         \* what parseImportedData returned
    heldDevices,    \* App: `devices` state
    errorMsg,       \* App: `errorMsg` state
    inflight,       \* App.handleProbeDevice: the calls whose fetch has not settled
    probeLog        \* the calls of handleProbeDevice that ended, in order

vars == << devices, cleanDevices, rendered, operation, retries0, delay0,
           retries, delay, rpc, invocations, caught, waits, result, thrown,
           subnetBase, responding, spc, batchStart, pending, batchResults,
           probeCount, activeDevices, progress, overtaken,
           importText, pastedText, ipc, parsed, heldDevices, errorMsg,
           inflight, probeLog >>

sanVars == << devices, cleanDevices, rendered >>

retryVars == << operation, retries0, delay0, retries, delay, rpc,
                invocations, caught, waits, result, thrown >>

scanVars == << subnetBase, responding, spc, batchStart, pending, batchResults,
               probeCount, activeDevices, progress, overtaken >>

impVars == << importText, pastedText, ipc, parsed, heldDevices, errorMsg >>

probeVars == << inflight, probeLog >>

(***************************************************************************)
(* Bounds of the model.                                                    *)
(***************************************************************************)
MaxLen == 3         \* longest device list handed to TopologyMap

MaxRetries == 3     \* largest `retries` argument passed to retryWithBackoff

(***************************************************************************)
(* JavaScript values.                                                      *)
(***************************************************************************)
Null == "<null>"            \* null / undefined of a string-valued field

NoNumber == -1              \* undefined of a number-valued field

\* "no error": the value of caught / thrown while nothing was caught / thrown
NoError == [name |-> "<none>", code |-> NoNumber, status |-> NoNumber, message |-> << >>]

\* JS truthiness of a string | null value (`d.parentId && ...`).
TruthyStr(s) == s /= Null /\ s /= ""

\* JS truthiness of a number | undefined value (`error?.code || ...`).
TruthyNum(n) == n /= NoNumber /\ n /= 0

(***************************************************************************)
(* types.ts                                                                *)
(***************************************************************************)
DeviceType == {"ROUTER", "SWITCH", "PC", "SERVER", "PRINTER", "MOBILE", "IOT", "CLOUD"}

ROUTER == "ROUTER"

\* Values of the fields the sanitizer only copies (ip, mac, name,
\* manufacturer, status, latency); latency is optional.
Profiles ==
    << [ip |-> "192.168.1.1", mac |-> "aa:bb:cc:dd:ee:01", name |-> "Gateway",
        manufacturer |-> "Cisco", status |-> "online", latency |-> 2],
       [ip |-> "192.168.1.50", mac |-> "11:22:33:44:55:66", name |-> "PC Amministrazione",
        manufacturer |-> "Dell", status |-> "offline", latency |-> NoNumber] >>

NetworkDevice(id, type, parentId, p) ==
    [id |-> id, ip |-> p.ip, mac |-> p.mac, name |-> p.name,
     manufacturer |-> p.manufacturer, type |-> type, parentId |-> parentId,
     status |-> p.status, latency |-> p.latency]

(***************************************************************************)
(* Inputs of the sanitizer: device lists as a discovery path (AI response, *)
(* text import, scan) may hand them over.  Nothing enforces unique ids or  *)
(* resolvable parents on that path, so both occur.                         *)
(***************************************************************************)
Ids == {"a", "b", "c"}

ParentIds == Ids \cup {Null, "x"}      \* "x" matches no id: a dangling reference

InputTypes == {ROUTER, "PC"}

Shapes == Ids \X InputTypes \X ParentIds

InputList(n, f) ==
    [i \in 1..n |-> NetworkDevice(f[i][1], f[i][2], f[i][3], Profiles[(i % 2) + 1])]

(***************************************************************************)
(* TopologyMap.tsx, the "D3 Logic" effect.                                 *)
(***************************************************************************)
\* const validIds = new Set(devices.map(d => d.id));
validIds(devs) == { devs[i].id : i \in DOMAIN devs }

\* Variant: the validIds test is left out (parentId: d.parentId || null).
demoteKeepsDangling(devs) ==
    [i \in DOMAIN devs |->
        [devs[i] EXCEPT !.parentId = IF TruthyStr(@) THEN @ ELSE Null]]

\* Variant: a device with a dangling parent is filtered out instead of demoted.
demoteDropsDangling(devs) ==
    SelectSeq([i \in DOMAIN devs |->
                  [devs[i] EXCEPT !.parentId = IF TruthyStr(@) THEN @ ELSE Null]],
              LAMBDA d : d.parentId = Null \/ d.parentId \in validIds(devs))

\* devices.map(d => ({...d, parentId: d.parentId && validIds.has(d.parentId)
\*                                     ? d.parentId : null}))
demote(devs) ==
    [i \in DOMAIN devs |->
        [devs[i] EXCEPT !.parentId =
            IF TruthyStr(@) /\ @ \in validIds(devs) THEN @ ELSE Null]]

\* cleanDevices.filter(d => d.parentId === null)
rootsOf(clean) == SelectSeq(clean, LAMBDA d : d.parentId = Null)

\* Variant: the main root is the first root, whatever its type.
mainRootOfFirst(roots) == roots[1]

\* roots.find(r => r.type === DeviceType.ROUTER) || roots[0]
mainRootOf(roots) ==
    IF \E i \in DOMAIN roots : roots[i].type = ROUTER
    THEN roots[CHOOSE i \in DOMAIN roots :
                  /\ roots[i].type = ROUTER
                  /\ \A j \in DOMAIN roots : roots[j].type = ROUTER => i <= j]
    ELSE roots[1]

\* Variant: the repair starts one root too late (roots.length > 2).
repairFromThreeRoots(clean) ==
    LET roots == rootsOf(clean) IN
    IF Len(roots) > 2
    THEN LET mainRoot == mainRootOf(roots) IN
         [i \in DOMAIN clean |->
            IF clean[i].parentId = Null /\ clean[i].id /= mainRoot.id
            THEN [clean[i] EXCEPT !.parentId = mainRoot.id]
            ELSE clean[i]]
    ELSE clean

\* Variant: only the first candidate root that is not the main root is
\* reparented (a find where the code maps).
repairFirstOther(clean) ==
    LET roots == rootsOf(clean) IN
    IF Len(roots) > 1
    THEN LET mainRoot == mainRootOf(roots)
             other == CHOOSE i \in DOMAIN clean :
                         /\ clean[i].parentId = Null /\ clean[i].id /= mainRoot.id
                         /\ \A j \in DOMAIN clean :
                               clean[j].parentId = Null /\ clean[j].id /= mainRoot.id => i <= j
         IN IF \E i \in DOMAIN clean : clean[i].parentId = Null /\ clean[i].id /= mainRoot.id
            THEN [clean EXCEPT ![other].parentId = mainRoot.id]
            ELSE clean
    ELSE clean

\* Variant: with no candidate root the first device is promoted to root
\* (roots.length !== 1 with a fallback to cleanDevices[0]).
repairPromotesFirst(clean) ==
    LET roots == rootsOf(clean) IN
    IF Len(roots) > 1
    THEN LET mainRoot == mainRootOf(roots) IN
         [i \in DOMAIN clean |->
            IF clean[i].parentId = Null /\ clean[i].id /= mainRoot.id
            THEN [clean[i] EXCEPT !.parentId = mainRoot.id]
            ELSE clean[i]]
    ELSE IF Len(roots) = 0 /\ Len(clean) > 0
         THEN [clean EXCEPT ![1].parentId = Null]
         ELSE clean

\* if (roots.length > 1) { ... cleanDevices = cleanDevices.map(...) }
repair(clean) ==
    LET roots == rootsOf(clean) IN
    IF Len(roots) > 1
    THEN LET mainRoot == mainRootOf(roots) IN
         [i \in DOMAIN clean |->
            IF clean[i].parentId = Null /\ clean[i].id /= mainRoot.id
            THEN [clean[i] EXCEPT !.parentId = mainRoot.id]
            ELSE clean[i]]
    ELSE clean

\* The whole data preparation: lines 53-71.
sanitize(devs) == repair(demote(devs))

(***************************************************************************)
(* d3.stratify as TopologyMap calls it (.id(d => d.id),                    *)
(* .parentId(d => d.parentId)): the node list becomes a tree, or the call  *)
(* throws.  It throws "missing" when a parent id matches no node,          *)
(* "ambiguous" when it matches several, "multiple roots" on a second node  *)
(* without parent, "no root" when every node has a parent, and "cycle"     *)
(* when some node is not reachable from the root.                          *)
(***************************************************************************)
nodesWithId(nodes, id) == { j \in DOMAIN nodes : nodes[j].id = id }

\* The error of the linking loop at node i, "" when it links.
linkError(nodes, i, rootSeen) ==
    IF TruthyStr(nodes[i].parentId)
    THEN IF nodesWithId(nodes, nodes[i].parentId) = {} THEN "missing"
         ELSE IF Cardinality(nodesWithId(nodes, nodes[i].parentId)) > 1 THEN "ambiguous"
         ELSE ""
    ELSE IF rootSeen THEN "multiple roots" ELSE ""

RECURSIVE linkLoop(_, _, _)
linkLoop(nodes, i, rootSeen) ==
    IF i > Len(nodes) THEN (IF rootSeen THEN "" ELSE "no root")
    ELSE IF linkError(nodes, i, rootSeen) /= "" THEN linkError(nodes, i, rootSeen)
    ELSE linkLoop(nodes, i + 1, rootSeen \/ ~TruthyStr(nodes[i].parentId))

\* The nodes root.eachBefore visits: the root and everything below it.
RECURSIVE below(_, _, _)
below(nodes, reached, k) ==
    IF k = 0 THEN reached
    ELSE below(nodes,
               reached \cup { i \in DOMAIN nodes :
                                 /\ TruthyStr(nodes[i].parentId)
                                 /\ nodesWithId(nodes, nodes[i].parentId) \subseteq reached },
               k - 1)

stratify(nodes) ==
    IF linkLoop(nodes, 1, FALSE) /= "" THEN linkLoop(nodes, 1, FALSE)
    ELSE IF below(nodes, { i \in DOMAIN nodes : ~TruthyStr(nodes[i].parentId) }, Len(nodes))
                /= DOMAIN nodes
         THEN "cycle"
         ELSE ""

(***************************************************************************)
(* The effect itself.  svgRef.current is set whenever it runs: the <svg>   *)
(* element is rendered unconditionally.                                    *)
(***************************************************************************)
Render ==
    /\ rendered = "pending"
    /\ IF Len(devices) = 0
       THEN \* if (!devices.length || !svgRef.current) return;
            /\ rendered' = "nothing"
            /\ cleanDevices' = cleanDevices
       ELSE /\ cleanDevices' = sanitize(devices)
            /\ rendered' = IF stratify(sanitize(devices)) /= "" THEN "error" ELSE "tree"
    /\ UNCHANGED << devices, retryVars, scanVars, impVars, probeVars >>

RetryIdle ==
    /\ operation = << >>
    /\ retries0 = 0
    /\ delay0 = 0
    /\ retries = 0
    /\ delay = 0
    /\ rpc = "idle"
    /\ invocations = 0
    /\ caught = NoError
    /\ waits = << >>
    /\ result = Null
    /\ thrown = NoError

ScanIdle ==
    /\ subnetBase = ""
    /\ responding = {}
    /\ spc = "idle"
    /\ batchStart = 0
    /\ pending = {}
    /\ batchResults = << >>
    /\ probeCount = << >>
    /\ activeDevices = << >>
    /\ progress = << >>
    /\ overtaken = FALSE

ImpIdle ==
    /\ importText = << >>
    /\ pastedText = << >>
    /\ ipc = "idle"
    /\ parsed = << >>
    /\ heldDevices = << >>
    /\ errorMsg = Null

ProbeIdle ==
    /\ inflight = {}
    /\ probeLog = << >>

SanInit ==
    /\ \E n \in 0..MaxLen : \E f \in [1..n -> Shapes] : devices = InputList(n, f)
    /\ cleanDevices = << >>
    /\ rendered = "pending"
    /\ RetryIdle
    /\ ScanIdle
    /\ ImpIdle
    /\ ProbeIdle

SanNext == Render

SanSpec == SanInit /\ [][SanNext]_vars

(***************************************************************************)
(* Vocabulary of the sanitizer claims.                                     *)
(***************************************************************************)
\* The effect got past its early return and computed cleanDevices.
SanRan == rendered \in {"error", "tree"}

DistinctIds(devs) ==
    \A i, j \in DOMAIN devs : devs[i].id = devs[j].id => i = j

\* Device i of the input is a candidate root: no parent, or a parent that
\* matches no id of the input.
CandidateRoot(devs, i) ==
    ~TruthyStr(devs[i].parentId) \/ \A j \in DOMAIN devs : devs[j].id /= devs[i].parentId

CandidateRoots(devs) == { i \in DOMAIN devs : CandidateRoot(devs, i) }

NullParents(devs) == { i \in DOMAIN devs : devs[i].parentId = Null }

\* Following parentId links upward from device i ends at a device without
\* parent within k steps.
RECURSIVE ReachesRoot(_, _, _)
ReachesRoot(devs, i, k) ==
    \/ devs[i].parentId = Null
    \/ /\ k > 0
       /\ \E j \in DOMAIN devs :
             devs[j].id = devs[i].parentId /\ ReachesRoot(devs, j, k - 1)

Acyclic(devs) == \A i \in DOMAIN devs : ReachesRoot(devs, i, Len(devs))

\* C1 as stated: for every input device list the sanitizer's output holds
\* exactly one device whose parentId is null.
C1_ExactlyOneRootAlways ==
    rendered /= "pending" /\ Len(devices) > 0
        => Cardinality(NullParents(cleanDevices)) = 1

\* C1 as amended: for every non-empty input list with pairwise distinct ids
\* and at least one candidate root (a device whose parentId is null or
\* dangling), the sanitizer's output holds exactly one device whose parentId
\* is null.
C1_ExactlyOneRoot ==
    SanRan /\ DistinctIds(devices) /\ CandidateRoots(devices) /= {}
        => Cardinality(NullParents(cleanDevices)) = 1

\* Three devices with distinct ids, two of them candidate roots (one by a
\* dangling parent), sanitized to a single root.
C1_Witness ==
    /\ SanRan
    /\ Len(devices) = 3
    /\ DistinctIds(devices)
    /\ Cardinality(CandidateRoots(devices)) = 2
    /\ \E i \in DOMAIN devices : devices[i].parentId = "x"
    /\ Cardinality(NullParents(cleanDevices)) = 1

\* C2: in the sanitizer's output every non-null parentId is the id of a
\* device of the output, and a device whose input parentId matches no input
\* id comes out as a candidate root: without parent, or (after the roots
\* repair) parented to a device without parent.
C2_NoDanglingParent ==
    SanRan =>
        /\ \A i \in DOMAIN cleanDevices :
              cleanDevices[i].parentId /= Null
                  => \E j \in DOMAIN cleanDevices :
                        cleanDevices[j].id = cleanDevices[i].parentId
        /\ \A i \in CandidateRoots(devices) :
              \/ cleanDevices[i].parentId = Null
              \/ \E j \in NullParents(cleanDevices) :
                    cleanDevices[j].id = cleanDevices[i].parentId

\* A device with the dangling parent "x" next to a device with a valid
\* parent: the first lost its parent, the second kept it.
C2_Witness ==
    /\ SanRan
    /\ \E i, j \in DOMAIN devices :
          /\ devices[i].parentId = "x"
          /\ cleanDevices[i].parentId /= "x"
          /\ devices[j].parentId \in Ids
          /\ devices[j].parentId \in validIds(devices)
          /\ cleanDevices[j].parentId = devices[j].parentId

\* C3 as stated, on the inputs it names (a cycle or a self-parent next to a
\* valid root): whenever the sanitizer's output has a device without
\* parent, following parentId links upward from any device of the output
\* reaches a device without parent and never revisits a device.
C3_Acyclic ==
    SanRan /\ NullParents(cleanDevices) /= {} => Acyclic(cleanDevices)

\* C4: when the input is non-empty and has no candidate root, the sanitizer
\* repairs nothing (its output is its input) and the effect ends in the
\* error outcome, not in a tree layout.
C4_NoRootIsStructuralError ==
    rendered /= "pending" /\ Len(devices) > 0 /\ CandidateRoots(devices) = {}
        => cleanDevices = devices /\ rendered = "error"

\* A fully linked input of three devices (a cycle through all of them, or a
\* chain into a cycle) ended in the error outcome.
C4_Witness ==
    /\ rendered = "error"
    /\ Len(devices) = 3
    /\ DistinctIds(devices)
    /\ CandidateRoots(devices) = {}

\* C5: the sanitizer applied to its own output returns that output, field
\* by field and in the same order.
C5_Idempotent ==
    SanRan => sanitize(cleanDevices) = cleanDevices

\* An input the sanitizer changed in both of its steps (a demoted dangling
\* parent, three candidate roots repaired) whose output it leaves alone.
C5_Witness ==
    /\ SanRan
    /\ Cardinality(CandidateRoots(devices)) = 3
    /\ \E i \in DOMAIN devices : devices[i].parentId = "x"
    /\ cleanDevices /= devices
    /\ sanitize(cleanDevices) = cleanDevices

\* C6: the sanitizer's output has the length and order of its input, and
\* each output device equals the input device at its position in every
\* field but parentId.
C6_OnlyParentIdChanges ==
    SanRan =>
        /\ Len(cleanDevices) = Len(devices)
        /\ \A i \in DOMAIN devices :
              /\ cleanDevices[i].id = devices[i].id
              /\ cleanDevices[i].ip = devices[i].ip
              /\ cleanDevices[i].mac = devices[i].mac
              /\ cleanDevices[i].name = devices[i].name
              /\ cleanDevices[i].manufacturer = devices[i].manufacturer
              /\ cleanDevices[i].type = devices[i].type
              /\ cleanDevices[i].status = devices[i].status
              /\ cleanDevices[i].latency = devices[i].latency

\* A list in which the sanitizer rewrote a parentId (a dangling one, in the
\* middle of the list) and every device is still in place.
C6_Witness ==
    /\ SanRan
    /\ Len(devices) = 3
    /\ devices[2].parentId = "x"
    /\ cleanDevices[2].parentId /= devices[2].parentId
    /\ Len(cleanDevices) = 3
    /\ \A i \in DOMAIN devices : cleanDevices[i].ip = devices[i].ip

(***************************************************************************)
(* services/geminiService.ts: retryWithBackoff(operation, retries = 3,     *)
(* delay = 2000).                                                          *)
(*                                                                         *)
(* An error is a record of the fields the wrapper reads (code, status,     *)
(* message); a message is the sequence of its words, and                   *)
(* message.includes(w) holds when w is one of them.  `operation` is given  *)
(* by what its i-th call does: resolve with a value or reject with an      *)
(* error; past its last entry it keeps doing what the last entry says.     *)
(***************************************************************************)
DefaultRetries == 3

DefaultDelay == 2000

Err(name, code, status, message) ==
    [name |-> name, code |-> code, status |-> status, message |-> message]

Errors ==
    { Err("ApiError", 429, NoNumber, << "Too", "Many", "Requests" >>),
      Err("ApiError", NoNumber, 503, << "Service", "Unavailable" >>),
      Err("Error", NoNumber, NoNumber, << "The", "model", "is", "overloaded" >>),
      Err("Error", NoNumber, NoNumber, << "You", "exceeded", "your", "current", "quota" >>),
      Err("Error", NoNumber, NoNumber, << "RESOURCE_EXHAUSTED" >>),
      Err("ApiError", 500, 429, << "Internal", "error" >>),
      Err("ApiError", 400, NoNumber, << "Bad", "Request" >>),
      Err("TypeError", NoNumber, NoNumber, << >>) }

Values == {"v1", "v2"}

Resolves(v) == [ok |-> TRUE, value |-> v, error |-> NoError]

Rejects(e) == [ok |-> FALSE, value |-> Null, error |-> e]

Outcomes == { Resolves(v) : v \in Values } \cup { Rejects(e) : e \in Errors }

\* What the i-th call of operation() does.
OutcomeOf(i) ==
    IF i \in DOMAIN operation THEN operation[i] ELSE operation[Len(operation)]

\* error.message.includes(word)
includes(message, word) == \E i \in DOMAIN message : message[i] = word

\* const errorCode = error?.code || error?.status;
errorCodeOf(error) == IF TruthyNum(error.code) THEN error.code ELSE error.status

\* Variant: the words handleError looks for count as transient too.
isTransientErrorOrQuota(error) ==
    \/ errorCodeOf(error) = 503
    \/ errorCodeOf(error) = 429
    \/ /\ error.message /= << >>
       /\ \/ includes(error.message, "overloaded")
          \/ includes(error.message, "quota")
          \/ includes(error.message, "RESOURCE_EXHAUSTED")

\* const isTransientError = errorCode === 503 || errorCode === 429 ||
\*     (error?.message && error.message.includes('overloaded'));
isTransientError(error) ==
    \/ errorCodeOf(error) = 503
    \/ errorCodeOf(error) = 429
    \/ (error.message /= << >> /\ includes(error.message, "overloaded"))

\* Variant: the last attempt of the budget is never made (retries > 1).
shouldRetryOffByOne(r, error) == r > 1 /\ isTransientError(error)

\* Variant: every error is retried while attempts remain.
shouldRetryAnyError(r, error) == r > 0

\* if (retries > 0 && isTransientError)
shouldRetry(r, error) == r > 0 /\ isTransientError(error)

\* try { return await operation(); ... : operation is invoked.
InvokeOperation ==
    /\ rpc = "call"
    /\ invocations' = invocations + 1
    /\ rpc' = "awaiting"
    /\ UNCHANGED << sanVars, scanVars, impVars, probeVars, operation, retries0, delay0, retries, delay,
                    caught, waits, result, thrown >>

\* operation() resolved: its value is returned through every level.
OperationResolves ==
    /\ rpc = "awaiting"
    /\ OutcomeOf(invocations).ok
    /\ result' = OutcomeOf(invocations).value
    /\ rpc' = "returned"
    /\ UNCHANGED << sanVars, scanVars, impVars, probeVars, operation, retries0, delay0, retries, delay,
                    invocations, caught, waits, thrown >>

\* operation() rejected: the catch block, up to its await or its throw.
OperationRejects ==
    /\ rpc = "awaiting"
    /\ ~OutcomeOf(invocations).ok
    /\ caught' = OutcomeOf(invocations).error
    /\ IF shouldRetry(retries, OutcomeOf(invocations).error)
       THEN \* await new Promise(resolve => setTimeout(resolve, delay));
            /\ rpc' = "backoff"
            /\ thrown' = thrown
       ELSE \* throw error;
            /\ rpc' = "thrown"
            /\ thrown' = OutcomeOf(invocations).error
    /\ UNCHANGED << sanVars, scanVars, impVars, probeVars, operation, retries0, delay0, retries, delay,
                    invocations, waits, result >>

\* Variant: the retry keeps the same delay.
BackoffElapsesSameDelay ==
    /\ rpc = "backoff"
    /\ waits' = Append(waits, delay)
    /\ retries' = retries - 1
    /\ delay' = delay
    /\ rpc' = "call"
    /\ UNCHANGED << sanVars, scanVars, impVars, probeVars, operation, retries0, delay0, invocations,
                    caught, result, thrown >>

\* The timer fired: return retryWithBackoff(operation, retries - 1, delay * 2);
BackoffElapses ==
    /\ rpc = "backoff"
    /\ waits' = Append(waits, delay)
    /\ retries' = retries - 1
    /\ delay' = delay * 2
    /\ rpc' = "call"
    /\ UNCHANGED << sanVars, scanVars, impVars, probeVars, operation, retries0, delay0, invocations,
                    caught, result, thrown >>

SanIdle ==
    /\ devices = << >>
    /\ cleanDevices = << >>
    /\ rendered = "idle"

RetryInit ==
    /\ retries0 \in 0..MaxRetries
    /\ delay0 = DefaultDelay
    /\ operation \in [1..(retries0 + 1) -> Outcomes]
    /\ retries = retries0
    /\ delay = delay0
    /\ rpc = "call"
    /\ invocations = 0
    /\ caught = NoError
    /\ waits = << >>
    /\ result = Null
    /\ thrown = NoError
    /\ SanIdle
    /\ ScanIdle
    /\ ImpIdle
    /\ ProbeIdle

RetryNext ==
    \/ InvokeOperation
    \/ OperationResolves
    \/ OperationRejects
    \/ BackoffElapses

RetrySpec == RetryInit /\ [][RetryNext]_vars

(***************************************************************************)
(* Vocabulary of the retry claims.                                         *)
(***************************************************************************)
RetryDone == rpc \in {"returned", "thrown"}

HasWord(error, word) == \E i \in DOMAIN error.message : error.message[i] = word

\* The code the wrapper reads off an error: its code, or its status when it
\* has no code.
ReadCode(error) ==
    IF error.code /= NoNumber /\ error.code /= 0 THEN error.code ELSE error.status

\* A transient signature as retryWithBackoff's own comment gives it: code
\* 429 or 503, or a message with "overloaded".
CodeTransient(error) == ReadCode(error) \in {429, 503} \/ HasWord(error, "overloaded")

\* An error whose only transient signature is the word "quota" or
\* "RESOURCE_EXHAUSTED" in its message.
QuotaOnly(error) ==
    /\ error.code = NoNumber
    /\ error.status = NoNumber
    /\ ~HasWord(error, "overloaded")
    /\ HasWord(error, "quota") \/ HasWord(error, "RESOURCE_EXHAUSTED")

\* An error with none of the transient signatures, under either reading.
NotTransient(error) ==
    /\ error.code \notin {429, 503}
    /\ error.status \notin {429, 503}
    /\ ~HasWord(error, "overloaded")
    /\ ~HasWord(error, "quota")
    /\ ~HasWord(error, "RESOURCE_EXHAUSTED")

\* The first k calls of operation fail with a 429 error and call k+1 succeeds.
FailsThenSucceeds(k) ==
    /\ k + 1 \in DOMAIN operation
    /\ \A i \in 1..k : ~operation[i].ok /\ ReadCode(operation[i].error) = 429
    /\ operation[k + 1].ok

\* Every call of operation fails with a transient error.
AlwaysTransient ==
    \A i \in DOMAIN operation : ~operation[i].ok /\ CodeTransient(operation[i].error)

\* C7: an operation that fails k times in a row with a 429 error and then
\* succeeds, k at most the retry budget, is invoked exactly k+1 times and
\* the wrapper returns the value of that success.
C7_RetriesUntilSuccess ==
    \A k \in 0..retries0 :
        FailsThenSucceeds(k) =>
            /\ invocations <= k + 1
            /\ rpc /= "thrown"
            /\ RetryDone \/ ENABLED RetryNext
            /\ RetryDone =>
                  /\ invocations = k + 1
                  /\ result = operation[k + 1].value

\* Two 429 failures and then a success: three invocations, the success
\* value returned.
C7_Witness ==
    /\ FailsThenSucceeds(2)
    /\ rpc = "returned"
    /\ invocations = 3
    /\ result = operation[3].value

\* C8: when the operation's first failure is a non-transient error, the
\* operation is invoked exactly once, no delay is waited and that very
\* error is propagated, whatever the retry budget is.
C8_NonTransientNotRetried ==
    ~operation[1].ok /\ NotTransient(operation[1].error) =>
        /\ invocations <= 1
        /\ waits = << >>
        /\ rpc \notin {"backoff", "returned"}
        /\ RetryDone \/ ENABLED RetryNext
        /\ RetryDone =>
              /\ invocations = 1
              /\ thrown = operation[1].error
              /\ retries = retries0

\* A non-transient error propagated after one invocation with the whole
\* default budget left.
C8_Witness ==
    /\ ~operation[1].ok
    /\ NotTransient(operation[1].error)
    /\ retries0 = DefaultRetries
    /\ rpc = "thrown"
    /\ invocations = 1
    /\ retries = DefaultRetries
    /\ thrown = operation[1].error

\* C9 as stated, in the case it singles out: an error whose only transient
\* signature is "quota" or "RESOURCE_EXHAUSTED" in its message is retried
\* while attempts remain, so it is propagated only with the budget used up.
C9_QuotaRetried ==
    rpc = "thrown" /\ QuotaOnly(thrown) => retries = 0

\* C9 as amended: retryWithBackoff retries an error while attempts remain
\* exactly when the code it reads off the error (code, or status when the
\* error has no code) is 429 or 503, or the message contains "overloaded";
\* an error whose only signature is "quota" or "RESOURCE_EXHAUSTED" in its
\* message is propagated at once.
C9_TransientExactly ==
    /\ rpc = "backoff" => CodeTransient(caught) /\ retries > 0
    /\ rpc = "thrown" => thrown = caught /\ (retries = 0 \/ ~CodeTransient(thrown))

\* An error known only by the word "overloaded" was retried once, and the
\* error of the second call, known only by "quota" or "RESOURCE_EXHAUSTED",
\* was propagated with budget left.
C9_Witness ==
    /\ ~operation[1].ok
    /\ operation[1].error.code = NoNumber
    /\ operation[1].error.status = NoNumber
    /\ HasWord(operation[1].error, "overloaded")
    /\ waits = << delay0 >>
    /\ rpc = "thrown"
    /\ invocations = 2
    /\ QuotaOnly(thrown)
    /\ retries > 0

\* C10: for an operation that fails with a transient error on every call,
\* the operation is invoked exactly retries+1 times (4 with the default
\* retries = 3), the wrapper then stops, and the error it propagates is the
\* error of the last attempt.
C10_BoundedAttempts ==
    AlwaysTransient =>
        /\ invocations <= retries0 + 1
        /\ rpc /= "returned"
        /\ RetryDone \/ ENABLED RetryNext
        /\ RetryDone =>
              /\ invocations = retries0 + 1
              /\ Len(waits) = retries0
              /\ thrown = operation[retries0 + 1].error

\* The default budget used up by four transient failures, the last one
\* different from the first: four invocations, the last error propagated.
C10_Witness ==
    /\ AlwaysTransient
    /\ retries0 = DefaultRetries
    /\ operation[1].error /= operation[4].error
    /\ rpc = "thrown"
    /\ invocations = 4
    /\ thrown = operation[4].error

(***************************************************************************)
(* services/geminiService.ts: scanSubnet(subnetBase, onProgress).          *)
(*                                                                         *)
(* The transport is given by the set `responding` of host suffixes whose   *)
(* fetch settles before the deadline: with an HTTP answer of any status,   *)
(* or (the hosts of RefusingHosts) with an immediate TypeError.  Every     *)
(* other fetch is aborted by its timer.  The timers of a batch have the    *)
(* same delay and fire in the order they were set; answers arrive in any   *)
(* order.                                                                  *)
(***************************************************************************)
NumCandidates == 11     \* how many hosts of CandidateHosts may answer together

IpCount == 254

batchSize == 12

timeoutMs == 1500

FastFailLatency == 5

VirtualSwitchAbove == 5

VirtualSwitchLatency == 1

CandidateHosts == << 1, 2, 254, 50, 3, 100, 201, 9, 10, 150, 30, 60, 253 >>

\* Hosts that are left out of a set of answering hosts, in any combination:
\* the gateways and the address the virtual switch borrows.  The other
\* sets of HostSets have one answering host in every batch, and between
\* them every address of the range.
SpecialHosts == {1, 2, 254}

\* Hosts that refuse the connection at once (no HTTP service).
RefusingHosts == {3, 50, 201}

HostSets ==
    { { CandidateHosts[j] : j \in 1..k } \ H :
          k \in 0..NumCandidates, H \in SUBSET SpecialHosts }
    \cup { { n \in 1..IpCount : n % batchSize = r } : r \in 0..(batchSize - 1) }

SubnetBases == {"192.168.1.", "224.0.0."}

\* performance.now() - start of an answered fetch, rounded.
elapsedMs(n) == 2 + (n % 40)

\* const ips = Array.from({ length: 254 }, (_, i) => i + 1);
ips == [i \in 1..IpCount |-> i]

\* Variant: the slice is one element too long (i + batchSize + 1).
batchOfOverlapping(i) ==
    { ips[j] : j \in (i + 1)..(IF i + batchSize + 1 < Len(ips)
                               THEN i + batchSize + 1 ELSE Len(ips)) }

\* ips.slice(i, i + batchSize), as the set of its suffixes
batchOf(i) ==
    { ips[j] : j \in (i + 1)..(IF i + batchSize < Len(ips) THEN i + batchSize ELSE Len(ips)) }

HexDigits == << "0", "1", "2", "3", "4", "5", "6", "7",
                "8", "9", "A", "B", "C", "D", "E", "F" >>

\* suffix.toString(16).padStart(2,'0').toUpperCase()
hex2(n) ==
    IF n < 16 THEN "0" \o HexDigits[n + 1]
    ELSE HexDigits[(n \div 16) + 1] \o HexDigits[(n % 16) + 1]

\* `${subnetBase}${ipSuffix}`
ipOf(base, suffix) == base \o ToString(suffix)

\* Variant: the Mobile test comes first, so .254 is a Mobile.
deviceTypeOfMobileFirst(suffix) ==
    IF suffix > 200 THEN "MOBILE"
    ELSE IF suffix = 1 \/ suffix = 254 THEN ROUTER
    ELSE IF suffix < 10 THEN "SERVER"
    ELSE "PC"

\* The heuristics of createDeviceFromIp.
deviceTypeOf(suffix) ==
    IF suffix = 1 \/ suffix = 254 THEN ROUTER
    ELSE IF suffix > 200 THEN "MOBILE"
    ELSE IF suffix < 10 THEN "SERVER"
    ELSE "PC"

createDeviceFromIp(ip, suffix, latency) ==
    [id |-> "auto-" \o ip,
     ip |-> ip,
     mac |-> "00:11:22:33:44:" \o hex2(suffix),
     name |-> IF suffix = 1 \/ suffix = 254 THEN "Gateway / Router" ELSE "Device " \o ip,
     manufacturer |-> "Generic Network Device",
     type |-> deviceTypeOf(suffix),
     parentId |-> Null,
     status |-> "online",
     latency |-> latency]

\* How the fetch of suffix n ends.
fetchOutcome(n) ==
    IF n \in responding
    THEN (IF n \in RefusingHosts THEN "TypeError" ELSE "resolved")
    ELSE "AbortError"

\* Variant: only an answered fetch counts; the catch block returns null.
checkIpAnswersOnly(n) ==
    [threw |-> FALSE,
     value |-> IF fetchOutcome(n) = "resolved"
               THEN << createDeviceFromIp(ipOf(subnetBase, n), n, elapsedMs(n)) >>
               ELSE << >>]

\* Variant: the catch block rethrows what is not an AbortError.
checkIpRethrows(n) ==
    [threw |-> fetchOutcome(n) = "TypeError",
     value |-> IF fetchOutcome(n) = "resolved"
               THEN << createDeviceFromIp(ipOf(subnetBase, n), n, elapsedMs(n)) >>
               ELSE << >>]

\* checkIp: what its promise settles with; value is << device >> or << >>
\* for null.
checkIp(n) ==
    [threw |-> FALSE,
     value |-> IF fetchOutcome(n) = "resolved"
               THEN << createDeviceFromIp(ipOf(subnetBase, n), n, elapsedMs(n)) >>
               ELSE IF fetchOutcome(n) = "AbortError"
                    THEN << >>
                    ELSE << createDeviceFromIp(ipOf(subnetBase, n), n, FastFailLatency) >>]

\* Variant: the results of a batch are pushed last to first.
RECURSIVE pushResultsBackwards(_, _, _, _)
pushResultsBackwards(acc, results, lo, hi) ==
    IF lo > hi THEN acc
    ELSE pushResultsBackwards(acc \o results[hi], results, lo, hi - 1)

\* Variant: the list is started again with every batch.
RECURSIVE pushResultsFresh(_, _, _, _)
pushResultsFresh(acc, results, lo, hi) ==
    IF lo > hi THEN << >>
    ELSE results[lo] \o pushResultsFresh(acc, results, lo + 1, hi)

\* results.forEach(res => { if (res) activeDevices.push(res); }) over the
\* results of suffixes lo..hi, in the order of the batch.
RECURSIVE pushResults(_, _, _, _)
pushResults(acc, results, lo, hi) ==
    IF lo > hi THEN acc
    ELSE pushResults(acc \o results[lo], results, lo + 1, hi)

\* Math.round(((i + batchSize) / ips.length) * 100)
progressOf(i) == (200 * (i + batchSize) + IpCount) \div (2 * IpCount)

\* Variant: the root is the first device found, whatever its type.
routerOfFirstFound(devs) == devs[1]

\* activeDevices.find(d => d.type === DeviceType.ROUTER) || activeDevices[0]
routerOf(devs) ==
    IF \E i \in DOMAIN devs : devs[i].type = ROUTER
    THEN devs[CHOOSE i \in DOMAIN devs :
                 /\ devs[i].type = ROUTER
                 /\ \A j \in DOMAIN devs : devs[j].type = ROUTER => i <= j]
    ELSE devs[1]

switchDevOf(base, router) ==
    [id |-> "virt-switch",
     ip |-> ipOf(base, 2),
     mac |-> "00:00:00:00:00:SW",
     name |-> "Switch Principale",
     manufacturer |-> "Virtual Switch",
     type |-> "SWITCH",
     parentId |-> router.id,
     status |-> "online",
     latency |-> VirtualSwitchLatency]

\* Variant: the virtual switch is made for more than 6 devices.
postProcessAboveSix(base, devs) ==
    IF Len(devs) > 1
    THEN LET router == routerOf(devs) IN
         IF Len(devs) > 6
         THEN LET switchDev == switchDevOf(base, router)
                  pushed == IF \E i \in DOMAIN devs : devs[i].ip = switchDev.ip
                            THEN devs
                            ELSE Append(devs, switchDev)
              IN [i \in DOMAIN pushed |->
                    IF pushed[i].id /= router.id /\ pushed[i].id /= switchDev.id
                    THEN [pushed[i] EXCEPT !.parentId = switchDev.id]
                    ELSE pushed[i]]
         ELSE [i \in DOMAIN devs |->
                 IF devs[i].id /= router.id
                 THEN [devs[i] EXCEPT !.parentId = router.id]
                 ELSE devs[i]]
    ELSE devs

\* Post-processing of the topology (lines 543-574).
postProcess(base, devs) ==
    IF Len(devs) > 1
    THEN LET router == routerOf(devs) IN
         IF Len(devs) > VirtualSwitchAbove
         THEN LET switchDev == switchDevOf(base, router)
                  pushed == IF \E i \in DOMAIN devs : devs[i].ip = switchDev.ip
                            THEN devs
                            ELSE Append(devs, switchDev)
              IN [i \in DOMAIN pushed |->
                    IF pushed[i].id /= router.id /\ pushed[i].id /= switchDev.id
                    THEN [pushed[i] EXCEPT !.parentId = switchDev.id]
                    ELSE pushed[i]]
         ELSE [i \in DOMAIN devs |->
                 IF devs[i].id /= router.id
                 THEN [devs[i] EXCEPT !.parentId = router.id]
                 ELSE devs[i]]
    ELSE devs

\* batch.map(checkIp): every fetch of the batch is issued.
startBatch(i) ==
    /\ pending' = batchOf(i)
    /\ probeCount' = [n \in DOMAIN probeCount |->
                         IF n \in batchOf(i) THEN probeCount[n] + 1 ELSE probeCount[n]]
    /\ batchResults' = << >>
    /\ batchStart' = i

\* scanSubnet is called: it runs up to the first await Promise.all.
ScanStart ==
    /\ spc = "called"
    /\ startBatch(0)
    /\ spc' = "awaiting"
    /\ UNCHANGED << sanVars, retryVars, impVars, probeVars, subnetBase, responding,
                    activeDevices, progress, overtaken >>

settle(n) ==
    IF checkIp(n).threw
    THEN \* Promise.all rejects, and scanSubnet with it
         /\ spc' = "rejected"
         /\ pending' = pending \ {n}
         /\ batchResults' = batchResults
    ELSE /\ spc' = spc
         /\ pending' = pending \ {n}
         /\ batchResults' = (n :> checkIp(n).value) @@ batchResults

\* Variant: no deadline, a fetch without answer stays pending.
ProbeNeverAborted(n) ==
    /\ FALSE
    /\ UNCHANGED vars

\* The fetch of suffix n answered or failed at once: checkIp continues
\* after its await, or in its catch block.
ProbeAnswers(n) ==
    /\ spc = "awaiting"
    /\ n \in pending
    /\ fetchOutcome(n) /= "AbortError"
    /\ settle(n)
    /\ overtaken' = (overtaken \/ \E m \in pending :
                                      m < n /\ fetchOutcome(m) /= "AbortError")
    /\ UNCHANGED << sanVars, retryVars, impVars, probeVars, subnetBase, responding,
                    batchStart, probeCount, activeDevices, progress >>

\* The timer of suffix n fired: controller.abort(), the fetch rejects with
\* an AbortError and checkIp returns null.
ProbeAborted(n) ==
    /\ spc = "awaiting"
    /\ n \in pending
    /\ fetchOutcome(n) = "AbortError"
    /\ \A m \in pending : fetchOutcome(m) = "AbortError" => n <= m
    /\ settle(n)
    /\ UNCHANGED overtaken
    /\ UNCHANGED << sanVars, retryVars, impVars, probeVars, subnetBase, responding,
                    batchStart, probeCount, activeDevices, progress >>

\* Variant: the loop goes on once the answered probes of the batch have
\* settled, with the timers of the others still running.
BatchSettlesOnAnswers ==
    /\ spc = "awaiting"
    /\ \A n \in pending : fetchOutcome(n) = "AbortError"
    /\ LET settled == [n \in 1..IpCount |->
                         IF n \in DOMAIN batchResults THEN batchResults[n] ELSE << >>]
           joined == pushResults(activeDevices, settled,
                                 batchStart + 1, batchStart + Cardinality(batchOf(batchStart)))
           next == batchStart + batchSize
       IN /\ progress' = Append(progress, << progressOf(batchStart), Len(joined) >>)
          /\ IF next < Len(ips)
             THEN /\ pending' = pending \cup batchOf(next)
                  /\ probeCount' = [n \in DOMAIN probeCount |->
                                       IF n \in batchOf(next) THEN probeCount[n] + 1
                                       ELSE probeCount[n]]
                  /\ batchResults' = << >>
                  /\ batchStart' = next
                  /\ activeDevices' = joined
                  /\ spc' = spc
             ELSE /\ activeDevices' = postProcess(subnetBase, joined)
                  /\ spc' = "returned"
                  /\ batchStart' = next
                  /\ UNCHANGED << pending, batchResults, probeCount >>
    /\ UNCHANGED << sanVars, retryVars, impVars, probeVars, subnetBase, responding, overtaken >>

\* Promise.all resolved: the results are pushed, onProgress is called, and
\* the loop goes on to the next batch, or ends, and then the topology is
\* post-processed and the list returned.
BatchSettles ==
    /\ spc = "awaiting"
    /\ pending = {}
    /\ LET joined == pushResults(activeDevices, batchResults,
                                 batchStart + 1, batchStart + Cardinality(batchOf(batchStart)))
           next == batchStart + batchSize
       IN /\ progress' = Append(progress, << progressOf(batchStart), Len(joined) >>)
          /\ IF next < Len(ips)
             THEN /\ startBatch(next)
                  /\ activeDevices' = joined
                  /\ spc' = spc
             ELSE /\ activeDevices' = postProcess(subnetBase, joined)
                  /\ spc' = "returned"
                  /\ batchStart' = next
                  /\ UNCHANGED << pending, batchResults, probeCount >>
    /\ UNCHANGED << sanVars, retryVars, impVars, probeVars, subnetBase, responding, overtaken >>

ScanInit ==
    /\ subnetBase \in SubnetBases
    /\ responding \in HostSets
    /\ spc = "called"
    /\ batchStart = 0
    /\ pending = {}
    /\ batchResults = << >>
    /\ probeCount = [n \in 1..IpCount |-> 0]
    /\ activeDevices = << >>
    /\ progress = << >>
    /\ overtaken = FALSE
    /\ SanIdle
    /\ RetryIdle
    /\ ImpIdle
    /\ ProbeIdle

ScanNext ==
    \/ ScanStart
    \/ \E n \in pending : ProbeAnswers(n)
    \/ \E n \in pending : ProbeAborted(n)
    \/ BatchSettles

ScanSpec == ScanInit /\ [][ScanNext]_vars

\* The event loop runs a continuation that is ready, answers that are on
\* their way arrive, and a timer that was set fires.
ScanFairSpec == ScanSpec /\ WF_vars(ScanNext)

(***************************************************************************)
(* Vocabulary of the claims about scanSubnet.                              *)
(***************************************************************************)
ScanReturned == spc = "returned"

\* The devices of the result that stand for a probed address.
ProbedDevices == SelectSeq(activeDevices, LAMBDA d : d.id /= "virt-switch")

\* The devices of the result that are a Switch.
Switches == SelectSeq(activeDevices, LAMBDA d : d.type = "SWITCH")

HasDeviceAt(n) ==
    \E i \in DOMAIN ProbedDevices : ProbedDevices[i].ip = ipOf(subnetBase, n)

\* C11: scanSubnet emits a device for address n exactly when the probe of n
\* answered or failed fast; a probe that timed out contributes none.  When
\* the hosts of a set S respond, the result holds |S| probed devices, one
\* per address of S.
C11_DevicePerRespondingHost ==
    ScanReturned =>
        /\ \A n \in 1..IpCount : HasDeviceAt(n) <=> n \in responding
        /\ Len(ProbedDevices) = Cardinality(responding)

\* Hosts 1, 50 and 254 respond (50 by refusing the connection), every
\* other probe times out, and the result has three devices.
C11_Witness ==
    /\ ScanReturned
    /\ responding = {1, 50, 254}
    /\ fetchOutcome(50) = "TypeError"
    /\ Len(activeDevices) = 3

\* The device of the result that stands for address n.
DeviceAt(n) ==
    ProbedDevices[CHOOSE i \in DOMAIN ProbedDevices :
                      ProbedDevices[i].ip = ipOf(subnetBase, n)]

\* The classification table of the Host Prober.
KindOfSuffix(n) ==
    CASE n = 1 \/ n = 254 -> "ROUTER"
      [] n /= 1 /\ n /= 254 /\ n > 200 -> "MOBILE"
      [] n /= 1 /\ n <= 200 /\ n < 10 -> "SERVER"
      [] OTHER -> "PC"

\* C12: every present host is classified by its suffix n alone, for all n
\* in 1..254: Router if n = 1 or n = 254, otherwise Mobile if n > 200,
\* otherwise Server if n < 10, otherwise PC.
C12_KindBySuffix ==
    ScanReturned =>
        \A n \in 1..IpCount :
            HasDeviceAt(n) => DeviceAt(n).type = KindOfSuffix(n)

\* A result with a device of each class, the second gateway address and
\* both sides of the limits 10 and 200 among them.
C12_Witness ==
    /\ ScanReturned
    /\ {1, 254, 201, 9, 10, 50} \subseteq responding
    /\ \A n \in {1, 254, 201, 9, 10, 50} : HasDeviceAt(n)
    /\ DeviceAt(254).type = "ROUTER"
    /\ DeviceAt(201).type = "MOBILE"
    /\ DeviceAt(9).type = "SERVER"
    /\ DeviceAt(10).type = "PC"

\* R of the Host Prober: the first Router of the list, else its first device.
FirstRouterOrFirst(devs) ==
    IF \E i \in DOMAIN devs : devs[i].type = "ROUTER"
    THEN devs[CHOOSE i \in DOMAIN devs :
                 /\ devs[i].type = "ROUTER"
                 /\ \A j \in 1..(i - 1) : devs[j].type /= "ROUTER"]
    ELSE devs[1]

PresentHosts == Cardinality(responding)

\* Every device but R is a child of R.
ParentedToR ==
    \A i \in DOMAIN activeDevices :
        activeDevices[i].id /= FirstRouterOrFirst(activeDevices).id
            => activeDevices[i].parentId = FirstRouterOrFirst(activeDevices).id

\* The result has one Switch, and it is a child of R.
OneSwitchUnderR ==
    /\ Len(Switches) = 1
    /\ Switches[1].parentId = FirstRouterOrFirst(activeDevices).id

C14_SwitchInvariant ==
    ScanReturned /\ PresentHosts > 6 =>
        /\ OneSwitchUnderR
        /\ \A i \in DOMAIN activeDevices :
               /\ activeDevices[i].id /= FirstRouterOrFirst(activeDevices).id
               /\ activeDevices[i].id /= Switches[1].id
               => activeDevices[i].parentId = Switches[1].id

\* R has parentId null and is the only device of the result that has.
ROnlyRoot ==
    /\ FirstRouterOrFirst(activeDevices).parentId = Null
    /\ \A i \in DOMAIN activeDevices :
           activeDevices[i].parentId = Null
               => activeDevices[i] = FirstRouterOrFirst(activeDevices)
    /\ \A i, j \in DOMAIN activeDevices :
           activeDevices[i].parentId = Null /\ activeDevices[j].parentId = Null
               => i = j

\* C15 as stated, the fan-out threshold being the 6 of the specification: in
\* every non-empty result R is the first Router in result order, or the
\* first device found when there is no Router; R has parentId null and is
\* the only device that has; and when the present hosts do not exceed the
\* threshold every other device is a child of R.
C15_RootOfResultUpToSix ==
    ScanReturned /\ activeDevices /= << >> =>
        /\ ROnlyRoot
        /\ PresentHosts <= 6 => ParentedToR

\* C15, amended: the same, with every other device a child of R when the
\* present hosts do not exceed 5.
C15_RootOfResult ==
    ScanReturned /\ activeDevices /= << >> =>
        /\ ROnlyRoot
        /\ PresentHosts <= 5 => ParentedToR

\* Hosts 1, 50 and 254 respond: device 1 is R, and 50 and 254 are its
\* children although 254 is a Router too.
C15_Witness ==
    /\ ScanReturned
    /\ responding = {1, 50, 254}
    /\ FirstRouterOrFirst(activeDevices) = DeviceAt(1)
    /\ DeviceAt(1).parentId = Null
    /\ DeviceAt(50).parentId = DeviceAt(1).id
    /\ DeviceAt(254).parentId = DeviceAt(1).id
    /\ DeviceAt(254).type = "ROUTER"

\* The probes that have been started.
Started == { n \in 1..IpCount : probeCount[n] > 0 }

\* C16: the addresses are probed in sequential batches of width 12: no probe
\* of the next batch is started before every probe of the batch before it
\* has settled, so at most 12 probes are outstanding at any moment.
C16_SequentialBatches ==
    /\ [](/\ Cardinality(pending) <= 12
          /\ pending \subseteq batchOf(batchStart)
          /\ spc = "awaiting" => /\ batchStart % 12 = 0
                                 /\ Started = 1..(batchStart + 12) \cap 1..IpCount)
    /\ [][(\E n \in 1..IpCount : probeCount'[n] > probeCount[n]) => pending = {}]_vars

\* The twelve probes of the second batch are outstanding, the first batch
\* having settled and reported.
C16_Witness ==
    /\ spc = "awaiting"
    /\ batchStart = 12
    /\ pending = 13..24
    /\ Len(progress) = 1
    /\ \A n \in 1..12 : probeCount[n] = 1

\* C17: the progress callback is invoked once after each batch has settled
\* and before the next one starts, 22 times in a scan, in batch order; the
\* found count it reports is the number of devices found so far, and the
\* percent and the found count never decrease from one call to the next.
C17_ProgressPerBatch ==
    /\ spc = "called" => progress = << >>
    /\ spc = "awaiting" => Len(progress) = batchStart \div 12
    /\ ScanReturned => Len(progress) = 22
    /\ \A k \in DOMAIN progress :
           progress[k][2] = Cardinality(responding \cap 1..(12 * k))
    /\ \A k \in DOMAIN progress :
           k > 1 => /\ progress[k - 1][1] <= progress[k][1]
                    /\ progress[k - 1][2] <= progress[k][2]

\* A scan that returned after 22 calls, the found count having grown from
\* one to three on the way.
C17_Witness ==
    /\ ScanReturned
    /\ responding = {1, 50, 254}
    /\ Len(progress) = 22
    /\ progress[1][2] = 1
    /\ progress[5][2] = 2
    /\ progress[22][2] = 3
    /\ progress[1][1] < progress[22][1]

\* C18: no outcome of a probe makes scanSubnet fail: whatever mix of answers,
\* fast failures and timeouts the 254 probes produce, none is thrown to the
\* caller, the addresses and batches that remain are still probed, and
\* scanSubnet returns a device list.
C18_NoProbeFailsTheScan ==
    /\ spc /= "rejected"
    /\ ScanReturned \/ ENABLED ScanNext
    /\ ScanReturned => \A n \in 1..IpCount : probeCount[n] >= 1

\* A scan that returned its list after probes of all three outcomes: an
\* answer, a refused connection in the fifth batch, and timeouts.
C18_Witness ==
    /\ ScanReturned
    /\ responding = {1, 2, 50, 254}
    /\ fetchOutcome(1) = "resolved"
    /\ fetchOutcome(50) = "TypeError"
    /\ fetchOutcome(51) = "AbortError"
    /\ \A n \in 1..IpCount : probeCount[n] = 1
    /\ Len(activeDevices) = 4

\* Prefixes of the multicast block 224.0.0.0/4 among SubnetBases.
MulticastBases == {"224.0.0."}

\* C19: the prober never emits a device whose address is a multicast
\* address (224.0.0.0/4, such as 224.0.0.5) or ends in .255 (such as
\* 192.168.1.255), whichever subnet prefix scanSubnet is given and whichever
\* hosts respond.
C19_NoMulticastOrBroadcast ==
    \A i \in DOMAIN activeDevices :
        /\ activeDevices[i].ip /= ipOf(subnetBase, 255)
        /\ activeDevices[i].ip /= "224.0.0.5"
        /\ subnetBase \notin MulticastBases

(***************************************************************************)
(* App.tsx: handleImportRealData, with parseImportedData in offline mode.  *)
(*                                                                         *)
(* App.tsx imports setOfflineMode from services/geminiService, but the     *)
(* revision of the service at hand has neither it nor the offline branch   *)
(* of parseImportedData (only the branch that asks the AI model).  The     *)
(* offline parser is therefore written from section 4.3 of the             *)
(* specification; the handler around it is the code of App.tsx.            *)
(*                                                                         *)
(* A text is a sequence of lines, a line a sequence of tokens.             *)
(***************************************************************************)
MaxLines == 3

IPv4Tokens == {"192.168.1.1", "192.168.1.10", "224.0.0.5", "192.168.1.255"}

MacTokens == {"aa:bb:cc:dd:ee:01", "AA-BB-CC-DD-EE-02"}

\* The four numbers of a dotted address.
octetsOf(tok) ==
    CASE tok = "192.168.1.1" -> << 192, 168, 1, 1 >>
      [] tok = "192.168.1.10" -> << 192, 168, 1, 10 >>
      [] tok = "224.0.0.5" -> << 224, 0, 0, 5 >>
      [] tok = "192.168.1.255" -> << 192, 168, 1, 255 >>

\* The lines a pasted text is made of: blank, a header, an address without
\* MAC, a MAC without address, and ARP entries.
ImportLines ==
    { << >>, << "Interface:" >>, << "aa:bb:cc:dd:ee:01", "static" >> }
    \cup { << ip, "dynamic" >> : ip \in IPv4Tokens }
    \cup { << ip, "aa:bb:cc:dd:ee:01", "dynamic" >> : ip \in IPv4Tokens }
    \cup { << "192.168.1.10", "AA-BB-CC-DD-EE-02", "dynamic" >> }

ImportTexts == UNION { [1..n -> ImportLines] : n \in 0..MaxLines }

\* The random small latency placeholders; one draw stands for a pass.
PlaceholderLatencies == {1, 2}

\* The first token of the line that has the pattern, or null.
firstToken(line, pattern) ==
    IF \E i \in DOMAIN line : line[i] \in pattern
    THEN line[CHOOSE i \in DOMAIN line :
                 /\ line[i] \in pattern
                 /\ \A j \in 1..(i - 1) : line[j] \notin pattern]
    ELSE Null

ipv4In(line) == firstToken(line, IPv4Tokens)

macIn(line) == firstToken(line, MacTokens)

\* 224.0.0.0/4
isMulticast(ip) == octetsOf(ip)[1] \div 16 = 14

\* x.x.x.255
isBroadcast(ip) == octetsOf(ip)[4] = 255

\* Variant: an address is enough for a line to qualify.
qualifiesWithoutMac(line) ==
    /\ ipv4In(line) /= Null
    /\ ~ isMulticast(ipv4In(line))
    /\ ~ isBroadcast(ipv4In(line))

\* A line qualifies only if both patterns are found, and its address is
\* neither multicast nor broadcast.
qualifies(line) ==
    /\ ipv4In(line) /= Null
    /\ macIn(line) /= Null
    /\ ~ isMulticast(ipv4In(line))
    /\ ~ isBroadcast(ipv4In(line))

\* Each qualifying line yields one Device, Online; Router if the address
\* ends in .1 or .254, else PC.
deviceOfLine(text, k, lat) ==
    [id |-> "import-" \o ToString(k),
     ip |-> ipv4In(text[k]),
     mac |-> macIn(text[k]),
     type |-> IF octetsOf(ipv4In(text[k]))[4] \in {1, 254} THEN ROUTER ELSE "PC",
     parentId |-> Null,
     status |-> "online",
     latency |-> lat]

\* Deduplication by address, keeping the first occurrence.
keepsLine(text, k) ==
    /\ qualifies(text[k])
    /\ \A j \in 1..(k - 1) :
           qualifies(text[j]) => ipv4In(text[j]) /= ipv4In(text[k])

\* The pass over the lines k..Len(text).
RECURSIVE extractFrom(_, _, _)
extractFrom(text, k, lat) ==
    IF k > Len(text) THEN << >>
    ELSE IF keepsLine(text, k)
         THEN << deviceOfLine(text, k, lat) >> \o extractFrom(text, k + 1, lat)
         ELSE extractFrom(text, k + 1, lat)

\* Root unification as in the prober: the Router if found, else the first
\* Device, becomes the parent of the others.
unifyRoot(devs) ==
    IF devs = << >> THEN devs
    ELSE [i \in DOMAIN devs |->
            IF devs[i].id /= routerOf(devs).id
            THEN [devs[i] EXCEPT !.parentId = routerOf(devs).id]
            ELSE devs[i]]

\* parseImportedData(rawText) without AI call.
parseOffline(text, lat) == unifyRoot(extractFrom(text, 1, lat))

\* importText.trim() is empty: no line has a token.
isBlank(text) == \A k \in DOMAIN text : text[k] = << >>

NoDevicesFound == "Non trovato dispositivi nel testo fornito."

\* handleImportRealData up to its await: it returns at once on a blank
\* text, and otherwise clears the error and calls the parser.
ImportStart ==
    /\ ipc = "called"
    /\ IF isBlank(importText)
       THEN /\ ipc' = "returned"
            /\ UNCHANGED errorMsg
       ELSE /\ ipc' = "parsing"
            /\ errorMsg' = Null
    /\ UNCHANGED << sanVars, retryVars, scanVars, probeVars, importText, pastedText,
                    parsed, heldDevices >>

\* The parser returned: an empty list is reported in errorMsg, any other
\* replaces the devices; finally the text is cleared.
ImportParsed ==
    /\ ipc = "parsing"
    /\ \E lat \in PlaceholderLatencies :
          LET data == parseOffline(importText, lat) IN
          /\ parsed' = data
          /\ IF Len(data) = 0
             THEN /\ errorMsg' = NoDevicesFound
                  /\ UNCHANGED heldDevices
             ELSE /\ heldDevices' = data
                  /\ UNCHANGED errorMsg
    /\ importText' = << >>
    /\ ipc' = "done"
    /\ UNCHANGED << sanVars, retryVars, scanVars, probeVars, pastedText >>

ImportInit ==
    /\ importText \in ImportTexts
    /\ pastedText = importText
    /\ ipc = "called"
    /\ parsed = << >>
    /\ heldDevices = << >>
    /\ errorMsg = Null
    /\ SanIdle
    /\ RetryIdle
    /\ ScanIdle
    /\ ProbeIdle

ImportNext == ImportStart \/ ImportParsed

ImportSpec == ImportInit /\ [][ImportNext]_vars

(***************************************************************************)
(* Vocabulary of the claim about the text import.                          *)
(***************************************************************************)
HasIPv4(line) == \E i \in DOMAIN line : line[i] \in IPv4Tokens

HasMac(line) == \E i \in DOMAIN line : line[i] \in MacTokens

\* The lines that have the address a and a MAC.
EntriesOf(a) ==
    { k \in DOMAIN pastedText :
          /\ HasMac(pastedText[k])
          /\ \E i \in DOMAIN pastedText[k] : pastedText[k][i] = a }

ImportEnded == ipc \in {"returned", "done"}

PrimaryRoot(devs) ==
    IF \E i \in CandidateRoots(devs) : devs[i].type = "ROUTER"
    THEN CHOOSE i \in CandidateRoots(devs) :
             /\ devs[i].type = "ROUTER"
             /\ \A j \in CandidateRoots(devs) : devs[j].type = "ROUTER" => i <= j
    ELSE CHOOSE i \in CandidateRoots(devs) :
             \A j \in CandidateRoots(devs) : i <= j

\* Devices with a valid parent keep it.
ValidParentsKept ==
    \A i \in DOMAIN devices :
        i \notin CandidateRoots(devices)
            => cleanDevices[i].parentId = devices[i].parentId

\* C24 as stated: with more than one candidate root the primary root is the
\* first candidate root that is a Router, or the first candidate root when
\* none is; every other candidate root gets the primary root's id as
\* parentId, and devices that had a valid parent keep it.
C24_PrimaryRootAdoptsAll ==
    SanRan /\ Cardinality(CandidateRoots(devices)) > 1 =>
        /\ cleanDevices[PrimaryRoot(devices)].parentId = Null
        /\ \A i \in CandidateRoots(devices) \ {PrimaryRoot(devices)} :
               cleanDevices[i].parentId = devices[PrimaryRoot(devices)].id
        /\ ValidParentsKept

\* C24, amended: the same, the candidate roots that are reparented being
\* those whose id differs from the primary root's id; a candidate root that
\* shares the primary root's id is left without parent.
C24_PrimaryRoot ==
    SanRan /\ Cardinality(CandidateRoots(devices)) > 1 =>
        /\ cleanDevices[PrimaryRoot(devices)].parentId = Null
        /\ \A i \in CandidateRoots(devices) :
               cleanDevices[i].parentId =
                   IF devices[i].id = devices[PrimaryRoot(devices)].id
                   THEN Null
                   ELSE devices[PrimaryRoot(devices)].id
        /\ ValidParentsKept

\* Two candidate roots, the Router second in input order (its parent is
\* dangling), and a third device that is a child of the Router: the Router
\* is the primary root, the first device becomes its child, the third
\* keeps its parent.
C24_Witness ==
    /\ SanRan
    /\ Len(devices) = 3
    /\ devices[1].id = "b" /\ devices[1].type = "PC" /\ devices[1].parentId = Null
    /\ devices[2].id = "a" /\ devices[2].type = "ROUTER" /\ devices[2].parentId = "x"
    /\ devices[3].id = "c" /\ devices[3].parentId = "a"
    /\ PrimaryRoot(devices) = 2
    /\ cleanDevices[1].parentId = "a"
    /\ cleanDevices[2].parentId = Null
    /\ cleanDevices[3].parentId = "a"

(***************************************************************************)
(* More claims about retryWithBackoff.                                     *)
(***************************************************************************)
\* C25: the wrapper waits before each retry and doubles the wait every
\* time, without cap or jitter: the wait before the j-th retry is
\* delay * 2^(j-1), which is 2000, 4000, 8000 ms with the defaults, and
\* every retry takes exactly one from the remaining attempt budget.
C25_BackoffDoubles ==
    /\ \A j \in DOMAIN waits : waits[j] = delay0 * 2^(j - 1)
    /\ delay0 = 2000 =>
           \A j \in DOMAIN waits : j <= 3 => waits[j] = << 2000, 4000, 8000 >>[j]
    /\ retries = retries0 - Len(waits)
    /\ delay = delay0 * 2^Len(waits)
    /\ invocations <= Len(waits) + 1
    /\ rpc /= "call" => invocations = Len(waits) + 1

\* Three retries with the defaults: the waits were 2000, 4000 and 8000 ms
\* and the budget of 3 is used up.
C25_Witness ==
    /\ retries0 = 3
    /\ delay0 = 2000
    /\ waits = << 2000, 4000, 8000 >>
    /\ retries = 0
    /\ invocations = 4
    /\ rpc = "thrown"

(***************************************************************************)
(* More claims about scanSubnet.                                           *)
(***************************************************************************)
\* C26: within one scan each address 1..254 is probed exactly once: a probe
\* that timed out or failed is never retried, and no address is skipped or
\* probed twice.
C26_EachAddressOnce ==
    /\ DOMAIN probeCount = 1..254
    /\ \A n \in 1..IpCount : probeCount[n] <= 1
    /\ \A n \in 1..(IpCount - 1) : probeCount[n] = 0 => probeCount[n + 1] = 0
    /\ ScanReturned => \A n \in 1..IpCount : probeCount[n] = 1

\* A scan that returned, with a probe that failed fast (50) and probes that
\* timed out (2, 51) among its 254: each was made once.
C26_Witness ==
    /\ ScanReturned
    /\ responding = {1, 50, 254}
    /\ fetchOutcome(50) = "TypeError"
    /\ fetchOutcome(2) = "AbortError"
    /\ probeCount[50] = 1 /\ probeCount[2] = 1 /\ probeCount[51] = 1
    /\ \A n \in 1..IpCount : probeCount[n] = 1
    /\ Len(progress) = 22

\* C27: the percent passed to the progress callback is always between 0 and
\* 100 inclusive, and the last call of a scan reports exactly 100.
C27_PercentInRange ==
    /\ \A k \in DOMAIN progress : progress[k][1] \in 0..100
    /\ ScanReturned => progress[Len(progress)][1] = 100

\* C29: in every list returned by scanSubnet each parentId is null or the id
\* of a device of the list, and all ids and all ip addresses of the list are
\* pairwise distinct, whichever hosts responded, the host with suffix 2
\* among more hosts than the fan-out threshold included.
C29_ResultWellFormed ==
    ScanReturned =>
        /\ \A i \in DOMAIN activeDevices :
               \/ activeDevices[i].parentId = Null
               \/ \E j \in DOMAIN activeDevices :
                      activeDevices[j].id = activeDevices[i].parentId
        /\ \A i, j \in DOMAIN activeDevices :
               activeDevices[i].id = activeDevices[j].id => i = j
        /\ \A i, j \in DOMAIN activeDevices :
               activeDevices[i].ip = activeDevices[j].ip => i = j

\* The i-th responding suffix in ascending order.
NthHost(i) ==
    CHOOSE n \in responding : Cardinality({ m \in responding : m <= n }) = i

\* C28: the list scanSubnet returns does not depend on the order in which
\* the probes of a batch complete: for a given set of responding hosts every
\* interleaving of completions gives the same devices in the same order,
\* ascending by suffix with the synthetic Switch last, the results of a
\* batch being merged only when the whole batch has settled.
C28_OrderIndependent ==
    /\ spc = "awaiting" => Len(activeDevices) = Cardinality(responding \cap 1..batchStart)
    /\ ScanReturned =>
           /\ Len(ProbedDevices) = PresentHosts
           /\ \A i \in 1..PresentHosts :
                  /\ activeDevices[i].ip = ipOf(subnetBase, NthHost(i))
                  /\ activeDevices[i].id = "auto-" \o ipOf(subnetBase, NthHost(i))
                  /\ activeDevices[i].type = KindOfSuffix(NthHost(i))
           /\ \A i \in DOMAIN activeDevices :
                  i > PresentHosts => /\ i = PresentHosts + 1
                                      /\ activeDevices[i].id = "virt-switch"

\* In the first batch host 3 answered before host 1; the list is 1, 3, 50,
\* 100, 201, 254 and then the Switch all the same.
C28_Witness ==
    /\ ScanReturned
    /\ overtaken
    /\ subnetBase = "192.168.1."
    /\ responding = {1, 3, 50, 100, 201, 254}
    /\ Len(activeDevices) = 7
    /\ activeDevices[1].ip = "192.168.1.1"
    /\ activeDevices[2].ip = "192.168.1.3"
    /\ activeDevices[6].ip = "192.168.1.254"
    /\ activeDevices[7].id = "virt-switch"

\* C23: a scan always terminates: every probe settles, by an answer, a fast
\* failure or the abort at its 1500 ms deadline, so with answers and timers
\* fairly scheduled scanSubnet runs its 22 batches and returns.
C23_ScanTerminates ==
    /\ <>(ScanReturned /\ Len(progress) = 22)
    /\ (pending /= {}) ~> (pending = {})

\* The scan returned when no host at all answered: every one of the 254
\* probes was ended by its deadline.
C23_Witness ==
    /\ ScanReturned
    /\ responding = {}
    /\ activeDevices = << >>
    /\ Len(progress) = 22
    /\ \A n \in 1..IpCount : probeCount[n] = 1 /\ fetchOutcome(n) = "AbortError"

(***************************************************************************)
(* The pipeline: the list scanSubnet returned becomes the `devices` prop   *)
(* of TopologyMap (App.tsx: setDevices(data), then                         *)
(* <TopologyMap devices={devices} />), whose effect sanitizes it.          *)
(***************************************************************************)
ShowScanResult ==
    /\ spc = "returned"
    /\ rendered = "idle"
    /\ devices' = activeDevices
    /\ rendered' = "pending"
    /\ UNCHANGED << cleanDevices, retryVars, scanVars, impVars, probeVars >>

PipelineNext ==
    \/ ScanNext
    \/ ShowScanResult
    \/ Render

PipelineSpec == ScanInit /\ [][PipelineNext]_vars

\* C22: for every non-empty set of responding hosts, the list scanSubnet
\* returned, passed through the topology sanitizer, is a single rooted
\* tree: exactly one device with parentId null, every other parentId the id
\* of a device of the set, and no cycle.
C22_ScanThenSanitizeIsTree ==
    spc = "returned" /\ rendered \notin {"idle", "pending"} /\ responding /= {} =>
        /\ devices = activeDevices
        /\ Len(cleanDevices) = Len(activeDevices)
        /\ Cardinality(NullParents(cleanDevices)) = 1
        /\ \A i \in DOMAIN cleanDevices :
               \/ cleanDevices[i].parentId = Null
               \/ \E j \in DOMAIN cleanDevices :
                      cleanDevices[j].id = cleanDevices[i].parentId
        /\ Acyclic(cleanDevices)
        /\ rendered = "tree"

\* Seven hosts with suffix 2 among them: the scan's list names a Switch it
\* does not contain, and the sanitizer makes the six orphans children of
\* the router.
C22_Witness ==
    /\ spc = "returned"
    /\ rendered = "tree"
    /\ responding = {1, 2, 3, 50, 100, 201, 254}
    /\ Len(cleanDevices) = 7
    /\ \A i \in 2..7 : /\ activeDevices[i].parentId = "virt-switch"
                       /\ cleanDevices[i].parentId = cleanDevices[1].id
    /\ cleanDevices[1].parentId = Null

(***************************************************************************)
(* App.tsx: handleProbeDevice, called from the context menu of a node of   *)
(* the map.  The function closes over the `devices` of the render it was   *)
(* created in; other handlers may call setDevices while its fetch is       *)
(* pending.                                                                *)
(***************************************************************************)
MaxProbes == 2     \* calls of handleProbeDevice in a run

ProbeTimeoutMs == 2000

\* Lists the App may hold: a first discovery, and a later one in which a
\* device was added and another changed.
HeldLists ==
    { << NetworkDevice("a", ROUTER, Null, Profiles[1]),
         NetworkDevice("b", "PC", "a", Profiles[2]) >>,
      << NetworkDevice("a", ROUTER, Null, Profiles[1]),
         NetworkDevice("c", "PC", "a", Profiles[2]),
         NetworkDevice("b", "PRINTER", "a", Profiles[1]) >> }

\* Date.now() - start of a fetch that resolved within the deadline.
ProbeLatencies == {3, 40}

\* devices.map(d => d.id === device.id
\*     ? { ...d, status: 'online', latency,
\*         type: d.type === DeviceType.PC ? DeviceType.SERVER : d.type }
\*     : d)
updatedDevicesOf(devs, device, latency) ==
    [i \in DOMAIN devs |->
        IF devs[i].id = device.id
        THEN [devs[i] EXCEPT !.status = "online",
                             !.latency = latency,
                             !.type = IF @ = "PC" THEN "SERVER" ELSE @]
        ELSE devs[i]]

CallsMade == Len(probeLog) + Cardinality(inflight)

\* handleProbeDevice(device) up to its await: the fetch is issued with a
\* 2000 ms abort timer.  `devices` is the list of the current render.
ProbeDevice(i) ==
    /\ CallsMade < MaxProbes
    /\ i \in DOMAIN heldDevices
    /\ inflight' = inflight \cup { [call |-> CallsMade + 1,
                                    device |-> heldDevices[i],
                                    devices |-> heldDevices] }
    /\ UNCHANGED << sanVars, retryVars, scanVars, impVars, probeLog >>

\* The fetch resolved: setDevices(updatedDevices).
ProbeResolves(p, latency) ==
    /\ p \in inflight
    /\ heldDevices' = updatedDevicesOf(p.devices, p.device, latency)
    /\ inflight' = inflight \ {p}
    /\ probeLog' = Append(probeLog, [call |-> p.call, device |-> p.device, ok |-> TRUE])
    /\ UNCHANGED << sanVars, retryVars, scanVars, importText, pastedText, ipc,
                    parsed, errorMsg >>

\* The fetch rejected, by the abort or a network error: the catch block
\* only warns.
ProbeRejects(p) ==
    /\ p \in inflight
    /\ inflight' = inflight \ {p}
    /\ probeLog' = Append(probeLog, [call |-> p.call, device |-> p.device, ok |-> FALSE])
    /\ UNCHANGED << sanVars, retryVars, scanVars, impVars >>

\* Another handler replaces the list: setDevices(data) of
\* handleImportRealData or handleScanNetwork.
SetDevices(data) ==
    /\ data /= heldDevices
    /\ heldDevices' = data
    /\ UNCHANGED << sanVars, retryVars, scanVars, importText, pastedText, ipc,
                    parsed, errorMsg, probeVars >>

ProbeInit ==
    /\ heldDevices \in HeldLists
    /\ inflight = {}
    /\ probeLog = << >>
    /\ importText = << >>
    /\ pastedText = << >>
    /\ ipc = "idle"
    /\ parsed = << >>
    /\ errorMsg = Null
    /\ SanIdle
    /\ RetryIdle
    /\ ScanIdle

ProbeNext ==
    \/ \E i \in DOMAIN heldDevices : ProbeDevice(i)
    \/ \E p \in inflight : \E latency \in ProbeLatencies : ProbeResolves(p, latency)
    \/ \E p \in inflight : ProbeRejects(p)
    \/ \E data \in HeldLists : SetDevices(data)

ProbeSpec == ProbeInit /\ [][ProbeNext]_vars

(***************************************************************************)
(* Vocabulary of the claims about handleProbeDevice.                       *)
(***************************************************************************)
\* The list `after` is the list `before` with at most the status, latency
\* and type of the devices of the given id changed.
Range(s) == { s[i] : i \in DOMAIN s }

FrameKept(before, after, id) ==
    /\ Len(after) = Len(before)
    /\ \A i \in DOMAIN before :
           /\ after[i].id = before[i].id
           /\ before[i].id /= id => after[i] = before[i]
           /\ before[i].id = id =>
                  [after[i] EXCEPT !.status = before[i].status,
                                   !.latency = before[i].latency,
                                   !.type = before[i].type] = before[i]

\* C21: the probe of a single device changes only that device: a successful
\* probe leaves the held list with the same length, order and ids, every
\* device of another id unchanged, and the probed device changed at most in
\* status, latency and type; a failed or timed-out probe leaves the held
\* list unchanged.
C21_OnlyProbedDeviceChanges ==
    [][\A p \in inflight :
          p \notin inflight' =>
              IF probeLog'[Len(probeLog')].ok
              THEN FrameKept(heldDevices, heldDevices', p.device.id)
              ELSE heldDevices' = heldDevices]_vars

\* C30: no update of the held list is lost when a probe overlaps another
\* update: if the held list was replaced while the probe was in flight, the
\* list held after the probe is the newer list with at most the probed
\* device updated, never the list the probe captured when it started.
C30_NoLostUpdate ==
    [][\A p \in inflight :
          p \notin inflight' /\ p.devices /= heldDevices =>
              /\ FrameKept(heldDevices, heldDevices', p.device.id)
              /\ \A i \in DOMAIN heldDevices' :
                     heldDevices'[i].id /= p.device.id => heldDevices'[i] \in Range(heldDevices)]_vars

====
